---- MODULE Spec2Model ----
(***************************************************************************)
(* Item management core: the usecase orchestrator (itemUsecase), the       *)
(* SQL-backed ItemRepository and the update validation of the controller.  *)
(* Every SQL statement is one atomic step on the table `items`; the        *)
(* callers are concurrent requests, each a single synchronous call chain.  *)
(***************************************************************************)
EXTENDS Integers, Sequences, FiniteSets, TLC

\* ------------------------------------------------------------------ bounds
NumCallers == 2   \* concurrent requests
MaxId      == 2   \* rows the table may ever hold (AUTO_INCREMENT values issued)
MaxClock   == 1   \* readings of the wall clock are 0..MaxClock
MaxFaults  == 1   \* backend failures injected in one behaviour
MaxCalls   == 3   \* public operations called in one behaviour
MaxCount   == 2   \* largest count in a raw summary handed to the usecase

Callers == 1..NumCallers
IdArgs  == -1..MaxId

\* ------------------------------------------------------------ domain values
ErrInvalidInput  == "ErrInvalidInput"
ErrItemNotFound  == "ErrItemNotFound"
ErrDatabaseError == "ErrDatabaseError"
NoError          == "nil"

\* entity.GetValidCategories(): the closed enumeration (ASCII for the
\* Japanese literals of the tests).
GetValidCategories == <<"Watch", "Bag", "Jewelry", "Shoes", "Other">>
CategorySet == {GetValidCategories[i] : i \in 1..Len(GetValidCategories)}

\* time.Parse("2006-01-02", s): the parsed date, or <<>> when s does not parse.
ParseDate(s) == IF s = "2023-01-15" THEN <<2023, 1, 15>> ELSE <<>>
\* Time.Format("2006-01-02")
FormatDate(t) == IF t = <<2023, 1, 15>> THEN "2023-01-15" ELSE "0001-01-01"

\* A nil pointer is <<>>, a pointer to v is <<v>>.
Nil == <<>>
Ptr(v) == <<v>>
Deref(p) == p[1]

\* UpdateItemInput: the patches a caller may send, one per case of presence
\* and validity of the three fields.
Patch(name, brand, price) == [Name |-> name, Brand |-> brand, PurchasePrice |-> price]
UpdateItemInput ==
    { Patch(Nil, Nil, Nil),
      Patch(Ptr("Submariner"), Nil, Nil),
      Patch(Nil, Ptr("OMEGA"), Nil),
      Patch(Nil, Nil, Ptr(0)),
      Patch(Ptr("Submariner"), Ptr("OMEGA"), Nil),
      Patch(Ptr(""), Nil, Nil),
      Patch(Nil, Ptr(""), Nil),
      Patch(Nil, Nil, Ptr(-1)),
      Patch(Ptr(""), Ptr(""), Ptr(-1)) }
NoUpdateInput == [Name |-> Nil, Brand |-> Nil, PurchasePrice |-> Nil]

\* CreateItemInput: two valid inputs and one input per violated rule.
Daytona == [Name |-> "Daytona", Category |-> "Watch", Brand |-> "ROLEX",
            PurchasePrice |-> 1, PurchaseDate |-> "2023-01-15"]
Birkin  == [Name |-> "Birkin", Category |-> "Bag", Brand |-> "HERMES",
            PurchasePrice |-> 0, PurchaseDate |-> "2023-01-15"]
CreateItemInput ==
    { Daytona, Birkin,
      [Daytona EXCEPT !.Name = ""],
      [Daytona EXCEPT !.Brand = ""],
      [Daytona EXCEPT !.Category = "Car"],
      [Daytona EXCEPT !.PurchasePrice = -1],
      [Daytona EXCEPT !.PurchaseDate = "2023-02-30"] }
NoCreateInput == [Name |-> "", Category |-> "", Brand |-> "",
                  PurchasePrice |-> 0, PurchaseDate |-> ""]

\* ------------------------------------------------------------------- state
VARIABLES
    items,    \* the table: id -> row, for the ids that currently have a row
    nextId,   \* the next AUTO_INCREMENT value
    now,      \* the wall clock
    faults,   \* backend failures injected so far
    calls,    \* public operations called so far
    call      \* per caller: the request in progress and its local variables

vars == <<items, nextId, now, faults, calls, call>>

EmptyMap == [k \in {} |-> 0]

NoSummary == [Categories |-> EmptyMap, Total |-> 0]
NoResult == [err |-> NoError, msg |-> "", item |-> Nil, list |-> <<>>,
             summary |-> NoSummary]

Idle == [pc |-> "idle", op |-> "", id |-> 0,
         uin |-> NoUpdateInput, cin |-> NoCreateInput,
         item |-> Nil, found |-> Nil, cols |-> {}, at |-> 0,
         rowsAffected |-> -1, failed |-> FALSE,
         raw |-> EmptyMap, invoked |-> {}, result |-> NoResult]

\* pc: the statement the call is at        op, id, uin, cin: the call
\* found: what the usecase's FindByID returned   item: the entity in hand
\* cols, at: the SET clause of Update       rowsAffected: of the call's write
\* failed: the backend failed in this call  invoked: repository methods called
\* raw: the counts GetSummaryByCategory returned

\* The wrap written with %v in place of %w: the error that comes out is of
\* no kind.
Done_Flattened(r, err, msg, item) ==
    [r EXCEPT !.pc = "done",
              !.result = [err |-> IF err # NoError /\ msg # "" THEN "errorString"
                                  ELSE err,
                          msg |-> msg, item |-> item, list |-> <<>>,
                          summary |-> NoSummary]]

\* Returning from the public operation with (item, err): the result stays
\* visible until the caller takes it. err is the sentinel errors.Is finds in
\* the returned error, msg the text fmt.Errorf wrapped it with (%w).
Done(r, err, msg, item) ==
    [r EXCEPT !.pc = "done",
              !.result = [err |-> err, msg |-> msg, item |-> item, list |-> <<>>,
                          summary |-> NoSummary]]

\* A caller may start a public operation. A finished call is taken by its
\* caller before anything else happens (Return commutes with every step).
NoneDone == \A d \in Callers : call[d].pc # "done"
MayCall(c) ==
    /\ call[c].pc = "idle"
    /\ NoneDone
    /\ calls < MaxCalls
MayStep(c, pc) ==
    /\ call[c].pc = pc
    /\ NoneDone

\* Whether the next backend call may fail.
Failures == IF faults < MaxFaults THEN {FALSE, TRUE} ELSE {FALSE}
Charge(fail) == faults' = IF fail THEN faults + 1 ELSE faults
\* Outcomes of an Execute followed by a read of its sql.Result.
ExecOutcomes ==
    IF faults < MaxFaults THEN {"ok", "execute fails", "result fails"} ELSE {"ok"}
ChargeOutcome(o) == faults' = IF o = "ok" THEN faults ELSE faults + 1

Init ==
    /\ items = EmptyMap
    /\ nextId = 1
    /\ now = 0
    /\ faults = 0
    /\ calls = 0
    /\ call = [c \in Callers |-> Idle]

\* The clock advances between any two steps.
Tick ==
    /\ now < MaxClock
    /\ NoneDone
    /\ now' = now + 1
    /\ UNCHANGED <<items, nextId, faults, calls, call>>

\* The caller takes the result.
Return(c) ==
    /\ call[c].pc = "done"
    /\ call' = [call EXCEPT ![c] = Idle]
    /\ UNCHANGED <<items, nextId, now, faults, calls>>

\* ------------------------------------------------------------ pure helpers
\* scanItem: a row as the entity the repository hands back.
scanItem(row) ==
    [row EXCEPT !.PurchaseDate =
        IF @ # ""
        THEN IF ParseDate(@) # <<>> THEN FormatDate(ParseDate(@)) ELSE @
        ELSE ""]

\* The validation without the test of the category.
ValidNewItem_AnyCategory(in) ==
    /\ in.Name # ""
    /\ in.Brand # ""
    /\ in.PurchasePrice >= 0
    /\ ParseDate(in.PurchaseDate) # <<>>

\* entity.NewItem's validation: required fields, category membership, price
\* sign, date parseability.
ValidNewItem(in) ==
    /\ in.Name # ""
    /\ in.Brand # ""
    /\ in.Category \in CategorySet
    /\ in.PurchasePrice >= 0
    /\ ParseDate(in.PurchaseDate) # <<>>

\* entity.NewItem: the entity before persistence (ID unset).
NewItem(in, t) ==
    [ID |-> 0, Name |-> in.Name, Category |-> in.Category, Brand |-> in.Brand,
     PurchasePrice |-> in.PurchasePrice, PurchaseDate |-> in.PurchaseDate,
     CreatedAt |-> t, UpdatedAt |-> t]

\* The guard with the boundary wrong: 0 passes.
InvalidID_Negative(id) == id < 0

\* The usecase's guard `id <= 0`.
InvalidID(id) == id <= 0

\* domainErrors.IsNotFoundError
IsNotFoundError(err) == err = ErrItemNotFound

\* The merge with a copied line left unedited: a present name also lands in
\* Brand.
MergeUpdate_CopyPaste(existingItem, input, t) ==
    [existingItem EXCEPT
        !.Name = IF input.Name # Nil THEN Deref(input.Name) ELSE @,
        !.Brand = IF input.Name # Nil THEN Deref(input.Name)
                  ELSE IF input.Brand # Nil THEN Deref(input.Brand) ELSE @,
        !.PurchasePrice =
            IF input.PurchasePrice # Nil THEN Deref(input.PurchasePrice) ELSE @,
        !.UpdatedAt = t]

\* UpdateItem, steps 2 and 3: overwrite the fields whose pointer is not nil,
\* then stamp UpdatedAt.
MergeUpdate(existingItem, input, t) ==
    [existingItem EXCEPT
        !.Name = IF input.Name # Nil THEN Deref(input.Name) ELSE @,
        !.Brand = IF input.Brand # Nil THEN Deref(input.Brand) ELSE @,
        !.PurchasePrice =
            IF input.PurchasePrice # Nil THEN Deref(input.PurchasePrice) ELSE @,
        !.UpdatedAt = t]

\* The SET clause with the three columns whatever the values.
UpdateColumns_Unconditional(item) == {"name", "brand", "purchase_price"}

\* The SET clause with the price taken as provided only when positive.
UpdateColumns_PositivePrice(item) ==
    (IF item.Name # "" THEN {"name"} ELSE {})
    \cup (IF item.Brand # "" THEN {"brand"} ELSE {})
    \cup (IF item.PurchasePrice > 0 THEN {"purchase_price"} ELSE {})

\* ItemRepository.Update: the columns of the SET clause besides updated_at,
\* chosen from the values of the item.
UpdateColumns(item) ==
    (IF item.Name # "" THEN {"name"} ELSE {})
    \cup (IF item.Brand # "" THEN {"brand"} ELSE {})
    \cup (IF item.PurchasePrice >= 0 THEN {"purchase_price"} ELSE {})

\* The UPDATE that leaves the brand to the row: a brand changed by another
\* call since the read is not written over.
ApplyUpdate_BrandKept(row, item, cols, t) ==
    [row EXCEPT
        !.Name = IF "name" \in cols THEN item.Name ELSE @,
        !.PurchasePrice = IF "purchase_price" \in cols THEN item.PurchasePrice ELSE @,
        !.UpdatedAt = t]

\* UPDATE items SET <cols>, updated_at = t WHERE id = item.ID, on one row.
ApplyUpdate(row, item, cols, t) ==
    [row EXCEPT
        !.Name = IF "name" \in cols THEN item.Name ELSE @,
        !.Brand = IF "brand" \in cols THEN item.Brand ELSE @,
        !.PurchasePrice = IF "purchase_price" \in cols THEN item.PurchasePrice ELSE @,
        !.UpdatedAt = t]

\* The INSERT with the parameters of name and brand in each other's place.
InsertedRow_SwappedParams(item, id, t) ==
    [ID |-> id, Name |-> item.Brand, Category |-> item.Category,
     Brand |-> item.Name, PurchasePrice |-> item.PurchasePrice,
     PurchaseDate |-> item.PurchaseDate, CreatedAt |-> t, UpdatedAt |-> t]

\* INSERT INTO items (name, category, brand, purchase_price, purchase_date):
\* the id and both timestamps come from the table's defaults.
InsertedRow(item, id, t) ==
    [ID |-> id, Name |-> item.Name, Category |-> item.Category,
     Brand |-> item.Brand, PurchasePrice |-> item.PurchasePrice,
     PurchaseDate |-> item.PurchaseDate, CreatedAt |-> t, UpdatedAt |-> t]

\* FindByID without the test for sql.ErrNoRows: a missing row is reported
\* as a database error.
FindByID_NoRowsUnchecked(id, fail) ==
    IF fail THEN [item |-> Nil, err |-> ErrDatabaseError]
    ELSE IF id \in DOMAIN items
         THEN [item |-> Ptr(scanItem(items[id])), err |-> NoError]
         ELSE [item |-> Nil, err |-> ErrDatabaseError]

\* ItemRepository.FindByID as a function of the table: (item, err).
FindByID(id, fail) ==
    IF fail THEN [item |-> Nil, err |-> ErrDatabaseError]
    ELSE IF id \in DOMAIN items
         THEN [item |-> Ptr(scanItem(items[id])), err |-> NoError]
         ELSE [item |-> Nil, err |-> ErrItemNotFound]

\* controller: validateUpdateItemInput, the list of messages.
validateUpdateItemInput(input) ==
    (IF input.PurchasePrice # Nil /\ Deref(input.PurchasePrice) < 0
        THEN <<"purchase_price must be 0 or greater">> ELSE <<>>)
    \o (IF input.Name # Nil /\ Deref(input.Name) = ""
        THEN <<"name cannot be empty">> ELSE <<>>)
    \o (IF input.Brand # Nil /\ Deref(input.Brand) = ""
        THEN <<"brand cannot be empty">> ELSE <<>>)
    \o (IF input.Name = Nil /\ input.Brand = Nil /\ input.PurchasePrice = Nil
        THEN <<"at least one field is required for update">> ELSE <<>>)

\* The grouping without the COUNT: every category that has a row counts 1.
GetSummaryByCategory_Presence ==
    [cat \in {items[i].Category : i \in DOMAIN items} |-> 1]

\* ItemRepository.GetSummaryByCategory as a function of the table:
\* SELECT category, COUNT(*) FROM items GROUP BY category.
GetSummaryByCategory ==
    [cat \in {items[i].Category : i \in DOMAIN items} |->
        Cardinality({i \in DOMAIN items : items[i].Category = cat})]

\* GetCategorySummary: `for _, count := range categoryCounts { total += count }`.
RECURSIVE SumCounts(_)
SumCounts(m) ==
    IF DOMAIN m = {} THEN 0
    ELSE LET k == CHOOSE x \in DOMAIN m : TRUE
         IN m[k] + SumCounts([x \in DOMAIN m \ {k} |-> m[x]])

\* The summary whose total adds 1 for every returned category instead of
\* its count.
CategorySummary_TotalOfKeys(categoryCounts) ==
    [Categories |->
        [category \in CategorySet |->
            IF category \in DOMAIN categoryCounts
            THEN categoryCounts[category] ELSE 0],
     Total |-> Cardinality(DOMAIN categoryCounts)]

\* The summary built over the keys of the raw counts instead of the
\* enumeration.
CategorySummary_RawKeys(categoryCounts) ==
    [Categories |-> categoryCounts, Total |-> SumCounts(categoryCounts)]

\* GetCategorySummary: the total and the zero-filled mapping over the
\* enumeration.
CategorySummary(categoryCounts) ==
    [Categories |->
        [category \in CategorySet |->
            IF category \in DOMAIN categoryCounts
            THEN categoryCounts[category] ELSE 0],
     Total |-> SumCounts(categoryCounts)]

\* --------------------------------------------------- the public operations
\* Each action is the code up to and including its next SQL statement.

\* ItemRepository.FindAll: the orders `ORDER BY created_at DESC` allows, as
\* sequences of ids (rows of one creation time come in any order).
FindAllOrders ==
    {s \in [1..Cardinality(DOMAIN items) -> DOMAIN items] :
        /\ \A i, j \in DOMAIN s : i # j => s[i] # s[j]
        /\ \A i, j \in DOMAIN s :
              i < j => items[s[i]].CreatedAt >= items[s[j]].CreatedAt}

\* itemUsecase.GetAllItems.
GetAllItems(c) ==
    /\ MayCall(c)
    /\ \E fail \in Failures, s \in FindAllOrders :
         LET r == [Idle EXCEPT !.op = "GetAllItems", !.failed = fail,
                               !.invoked = {"FindAll"}]
         IN /\ Charge(fail)
            /\ call' = [call EXCEPT ![c] =
                 IF fail
                 THEN Done(r, ErrDatabaseError, "failed to retrieve items", Nil)
                 ELSE [r EXCEPT !.pc = "done",
                         !.result = [NoResult EXCEPT !.list =
                            [i \in DOMAIN s |-> scanItem(items[s[i]])]]]]
    /\ calls' = calls + 1
    /\ UNCHANGED <<items, nextId, now>>

\* itemUsecase.GetItemByID.
GetItemByID(c, id) ==
    /\ MayCall(c)
    /\ \E fail \in (IF InvalidID(id) THEN {FALSE} ELSE Failures) :
         LET r0  == [Idle EXCEPT !.op = "GetItemByID", !.id = id]
             r   == [r0 EXCEPT !.invoked = {"FindByID"}, !.failed = fail]
             got == FindByID(id, fail)
         IN /\ Charge(fail)
            /\ call' = [call EXCEPT ![c] =
                 IF InvalidID(id) THEN Done(r0, ErrInvalidInput, "", Nil)
                 ELSE IF got.err # NoError
                 THEN IF IsNotFoundError(got.err)
                      THEN Done(r, ErrItemNotFound, "", Nil)
                      ELSE Done(r, got.err, "failed to retrieve item", Nil)
                 ELSE Done([r EXCEPT !.found = got.item], NoError, "", got.item)]
    /\ calls' = calls + 1
    /\ UNCHANGED <<items, nextId, now>>

\* itemUsecase.DeleteItem up to the answer of FindByID.
DeleteItem(c, id) ==
    /\ MayCall(c)
    /\ \E fail \in (IF InvalidID(id) THEN {FALSE} ELSE Failures) :
         LET r0  == [Idle EXCEPT !.op = "DeleteItem", !.id = id]
             r   == [r0 EXCEPT !.invoked = {"FindByID"}, !.failed = fail]
             got == FindByID(id, fail)
         IN /\ Charge(fail)
            /\ call' = [call EXCEPT ![c] =
                 IF InvalidID(id) THEN Done(r0, ErrInvalidInput, "", Nil)
                 ELSE IF got.err # NoError
                 THEN IF IsNotFoundError(got.err)
                      THEN Done(r, ErrItemNotFound, "", Nil)
                      ELSE Done(r, got.err, "failed to check item existence", Nil)
                 ELSE [r EXCEPT !.pc = "Delete", !.found = got.item]]
    /\ calls' = calls + 1
    /\ UNCHANGED <<items, nextId, now>>

\* Delete without the test of RowsAffected: deleting no row is a success.
CallDelete_NoRowsCheck(c) ==
    /\ MayStep(c, "Delete")
    /\ \E o \in ExecOutcomes :
         LET rowsAffected == IF call[c].id \in DOMAIN items THEN 1 ELSE 0
             r == [call[c] EXCEPT !.invoked = @ \cup {"Delete"},
                      !.failed = @ \/ o # "ok",
                      !.rowsAffected = IF o = "execute fails" THEN @ ELSE rowsAffected]
         IN /\ ChargeOutcome(o)
            /\ items' = IF o = "execute fails" THEN items
                        ELSE [i \in DOMAIN items \ {r.id} |-> items[i]]
            /\ call' = [call EXCEPT ![c] =
                 IF o # "ok" THEN Done(r, ErrDatabaseError, "failed to delete item", Nil)
                 ELSE Done(r, NoError, "", Nil)]
    /\ UNCHANGED <<nextId, now, calls>>

\* ItemRepository.Delete and the end of DeleteItem.
CallDelete(c) ==
    /\ MayStep(c, "Delete")
    /\ \E o \in ExecOutcomes :
         LET rowsAffected == IF call[c].id \in DOMAIN items THEN 1 ELSE 0
             r == [call[c] EXCEPT !.invoked = @ \cup {"Delete"},
                      !.failed = @ \/ o # "ok",
                      !.rowsAffected = IF o = "execute fails" THEN @ ELSE rowsAffected]
         IN /\ ChargeOutcome(o)
            /\ items' = IF o = "execute fails" THEN items
                        ELSE [i \in DOMAIN items \ {r.id} |-> items[i]]
            /\ call' = [call EXCEPT ![c] =
                 IF o # "ok" THEN Done(r, ErrDatabaseError, "failed to delete item", Nil)
                 ELSE IF rowsAffected = 0
                      THEN Done(r, ErrItemNotFound, "failed to delete item", Nil)
                 ELSE Done(r, NoError, "", Nil)]
    /\ UNCHANGED <<nextId, now, calls>>

\* itemUsecase.UpdateItem up to its call of the repository's Update: the id
\* check, FindByID, the merge of the patch and the stamp of UpdatedAt.
UpdateItem(c, id, input) ==
    /\ MayCall(c)
    /\ \E fail \in (IF InvalidID(id) THEN {FALSE} ELSE Failures) :
         LET r0  == [Idle EXCEPT !.op = "UpdateItem", !.id = id, !.uin = input]
             r   == [r0 EXCEPT !.invoked = {"FindByID"}, !.failed = fail]
             got == FindByID(id, fail)
         IN /\ Charge(fail)
            /\ call' = [call EXCEPT ![c] =
                 IF InvalidID(id) THEN Done(r0, ErrInvalidInput, "", Nil)
                 ELSE IF got.err # NoError
                 THEN IF IsNotFoundError(got.err)
                      THEN Done(r, ErrItemNotFound, "", Nil)
                      ELSE Done(r, got.err, "failed to retrieve existing item", Nil)
                 ELSE [r EXCEPT !.pc = "Update", !.found = got.item,
                         !.item = Ptr(MergeUpdate(Deref(got.item), input, now))]]
    /\ calls' = calls + 1
    /\ UNCHANGED <<items, nextId, now>>

\* ItemHandler.UpdateItem: the controller validates the bound patch and only
\* then calls the usecase.
HandlerUpdateItem(c, id, input) ==
    IF Len(validateUpdateItemInput(input)) > 0
    THEN /\ MayCall(c)
         /\ call' = [call EXCEPT ![c] =
              Done([Idle EXCEPT !.op = "HandlerUpdateItem", !.id = id, !.uin = input],
                   "StatusBadRequest", "validation failed", Nil)]
         /\ calls' = calls + 1
         /\ UNCHANGED <<items, nextId, now, faults>>
    ELSE UpdateItem(c, id, input)

\* ItemRepository.Update up to its statement: the SET clause is built from
\* the item and updated_at is read from the clock.
CallUpdate(c) ==
    /\ MayStep(c, "Update")
    /\ LET r    == [call[c] EXCEPT !.invoked = @ \cup {"Update"}]
           cols == UpdateColumns(Deref(r.item))
       IN call' = [call EXCEPT ![c] =
            IF cols = {} THEN [r EXCEPT !.pc = "ReturnFindByID"]
            ELSE [r EXCEPT !.pc = "Execute", !.cols = cols, !.at = now]]
    /\ UNCHANGED <<items, nextId, now, faults, calls>>

\* ItemRepository.Update: the UPDATE statement and its RowsAffected.
ExecuteUpdate(c) ==
    /\ MayStep(c, "Execute")
    /\ \E o \in ExecOutcomes :
         LET rowsAffected == IF call[c].id \in DOMAIN items THEN 1 ELSE 0
             r == [call[c] EXCEPT
                      !.failed = @ \/ o # "ok",
                      !.rowsAffected = IF o = "execute fails" THEN @ ELSE rowsAffected]
         IN /\ ChargeOutcome(o)
            /\ items' = IF o = "execute fails" \/ rowsAffected = 0 THEN items
                        ELSE [items EXCEPT ![r.id] =
                                ApplyUpdate(@, Deref(r.item), r.cols, r.at)]
            /\ call' = [call EXCEPT ![c] =
                 IF o # "ok" THEN Done(r, ErrDatabaseError, "failed to update item", Nil)
                 ELSE IF rowsAffected = 0
                      THEN Done(r, ErrItemNotFound, "failed to update item", Nil)
                 ELSE [r EXCEPT !.pc = "ReturnFindByID"]]
    /\ UNCHANGED <<nextId, now, calls>>

\* itemUsecase.CreateItem up to the end of the repository's INSERT and its
\* LastInsertId.
CreateItem(c, input) ==
    /\ MayCall(c)
    /\ nextId <= MaxId
    /\ \E o \in (IF ValidNewItem(input) THEN ExecOutcomes ELSE {"ok"}) :
         LET r0 == [Idle EXCEPT !.op = "CreateItem", !.cin = input]
             inserted == ValidNewItem(input) /\ o # "execute fails"
             r  == [r0 EXCEPT !.invoked = {"Create"},
                              !.item = Ptr(NewItem(input, now)),
                              !.failed = o # "ok",
                              !.rowsAffected = IF inserted THEN 1 ELSE @]
         IN /\ ChargeOutcome(o)
            /\ items' = IF ~inserted THEN items
                        ELSE [i \in DOMAIN items \cup {nextId} |->
                                IF i = nextId
                                THEN InsertedRow(Deref(r.item), nextId, now)
                                ELSE items[i]]
            /\ nextId' = IF inserted THEN nextId + 1 ELSE nextId
            /\ call' = [call EXCEPT ![c] =
                 IF ~ValidNewItem(input)
                 THEN Done(r0, ErrInvalidInput, "invalid input", Nil)
                 ELSE IF o # "ok"
                 THEN Done(r, ErrDatabaseError, "failed to create item", Nil)
                 ELSE [r EXCEPT !.pc = "ReturnFindByID", !.id = nextId]]
    /\ calls' = calls + 1
    /\ UNCHANGED now

\* `return r.FindByID(ctx, id)` at the end of Create and Update, and the end
\* of CreateItem and UpdateItem.
ReturnFindByID(c) ==
    /\ MayStep(c, "ReturnFindByID")
    /\ \E fail \in Failures :
         LET r   == [call[c] EXCEPT !.failed = @ \/ fail]
             got == FindByID(r.id, fail)
             msg == IF r.op = "CreateItem" THEN "failed to create item"
                    ELSE "failed to update item"
         IN /\ Charge(fail)
            /\ call' = [call EXCEPT ![c] =
                 IF got.err # NoError THEN Done(r, got.err, msg, Nil)
                 ELSE Done(r, NoError, "", got.item)]
    /\ UNCHANGED <<items, nextId, now, calls>>

\* itemUsecase.GetCategorySummary on the counts the repository returned.
Summarize(c, categoryCounts, fail) ==
    LET r == [Idle EXCEPT !.op = "GetCategorySummary", !.failed = fail,
                          !.invoked = {"GetSummaryByCategory"}]
    IN call' = [call EXCEPT ![c] =
         IF fail
         THEN Done(r, ErrDatabaseError, "failed to get category summary", Nil)
         ELSE [r EXCEPT !.pc = "done", !.raw = categoryCounts,
                        !.result = [NoResult EXCEPT
                                      !.summary = CategorySummary(categoryCounts)]]]

\* itemUsecase.GetCategorySummary over the SQL-backed repository.
GetCategorySummary(c) ==
    /\ MayCall(c)
    /\ \E fail \in Failures :
         /\ Charge(fail)
         /\ Summarize(c, GetSummaryByCategory, fail)
    /\ calls' = calls + 1
    /\ UNCHANGED <<items, nextId, now>>

Next ==
    \/ Tick
    \/ \E c \in Callers :
         \/ GetAllItems(c)
         \/ \E id \in IdArgs : GetItemByID(c, id)
         \/ \E id \in IdArgs : DeleteItem(c, id)
         \/ \E id \in IdArgs, input \in UpdateItemInput : UpdateItem(c, id, input)
         \/ \E id \in IdArgs, input \in UpdateItemInput : HandlerUpdateItem(c, id, input)
         \/ \E input \in CreateItemInput : CreateItem(c, input)
         \/ GetCategorySummary(c)
         \/ CallDelete(c)
         \/ CallUpdate(c)
         \/ ExecuteUpdate(c)
         \/ ReturnFindByID(c)
         \/ Return(c)

Spec == Init /\ [][Next]_vars

\* Calls that do not overlap: a caller starts only when every other caller
\* is idle.
Alone(c) == \A d \in Callers \ {c} : call[d].pc = "idle"

NextSeq ==
    \/ Tick
    \/ \E c \in Callers :
         \/ Alone(c) /\ GetAllItems(c)
         \/ \E id \in IdArgs : Alone(c) /\ GetItemByID(c, id)
         \/ \E id \in IdArgs : Alone(c) /\ DeleteItem(c, id)
         \/ \E id \in IdArgs, input \in UpdateItemInput :
                Alone(c) /\ UpdateItem(c, id, input)
         \/ \E id \in IdArgs, input \in UpdateItemInput :
                Alone(c) /\ HandlerUpdateItem(c, id, input)
         \/ \E input \in CreateItemInput : Alone(c) /\ CreateItem(c, input)
         \/ Alone(c) /\ GetCategorySummary(c)
         \/ CallDelete(c)
         \/ CallUpdate(c)
         \/ ExecuteUpdate(c)
         \/ ReturnFindByID(c)
         \/ Return(c)

SpecSeq == Init /\ [][NextSeq]_vars

\* The usecase over a repository double, as in TestItemUsecase_GetCategorySummary:
\* GetSummaryByCategory returns any mapping, whatever the table holds.
SummaryKeys == CategorySet \cup {"Car"}
RawSummaries ==
    UNION {[keys -> 1..MaxCount] : keys \in SUBSET SummaryKeys}

GetCategorySummaryOver(c, categoryCounts) ==
    /\ MayCall(c)
    /\ Summarize(c, categoryCounts, FALSE)
    /\ calls' = calls + 1
    /\ UNCHANGED <<items, nextId, now, faults>>

NextSummary ==
    \E c \in Callers :
        \/ \E categoryCounts \in RawSummaries : GetCategorySummaryOver(c, categoryCounts)
        \/ Return(c)

SpecSummary == Init /\ [][NextSummary]_vars

\* ------------------------------------------------------------- properties
Finished(c, op) == call[c].pc = "done" /\ call[c].op = op
Succeeded(c, op) == Finished(c, op) /\ call[c].result.err = NoError

AllAbsent(input) ==
    input.Name = Nil /\ input.Brand = Nil /\ input.PurchasePrice = Nil
InvalidField(input) ==
    \/ input.Name # Nil /\ Deref(input.Name) = ""
    \/ input.Brand # Nil /\ Deref(input.Brand) = ""
    \/ input.PurchasePrice # Nil /\ Deref(input.PurchasePrice) < 0
ValidPatch(input) == ~AllAbsent(input) /\ ~InvalidField(input)
\* The columns the patch marks present.
PresentColumns(input) ==
    (IF input.Name # Nil THEN {"name"} ELSE {})
    \cup (IF input.Brand # Nil THEN {"brand"} ELSE {})
    \cup (IF input.PurchasePrice # Nil THEN {"purchase_price"} ELSE {})

\* C1: UpdateItem with a patch whose three fields are all absent returns
\* InvalidInput and never invokes the repository's Update, for every id > 0,
\* whether or not the item exists.
C1_ZeroFieldUpdateRejected ==
    \A c \in Callers :
        call[c].op = "UpdateItem" /\ call[c].id > 0 /\ AllAbsent(call[c].uin)
        => /\ "Update" \notin call[c].invoked
           /\ call[c].pc = "done" => call[c].result.err = ErrInvalidInput

\* C2: UpdateItem with a present and empty name or brand, or a present and
\* negative price, returns InvalidInput and never invokes the repository's
\* Update, so that no statement of the call reaches the stored item.
C2_InvalidFieldUpdateRejected ==
    \A c \in Callers :
        call[c].op = "UpdateItem" /\ call[c].id > 0 /\ InvalidField(call[c].uin)
        => /\ "Update" \notin call[c].invoked
           /\ call[c].rowsAffected = -1
           /\ call[c].pc = "done" => call[c].result.err = ErrInvalidInput

\* What a successful update with patch `input` leaves in x, given the item
\* `pre` as it was stored before the call.
FrameKept(pre, x, input) ==
    /\ x.ID = pre.ID
    /\ x.Category = pre.Category
    /\ x.PurchaseDate = pre.PurchaseDate
    /\ x.CreatedAt = pre.CreatedAt
    /\ x.Name = IF input.Name = Nil THEN pre.Name ELSE Deref(input.Name)
    /\ x.Brand = IF input.Brand = Nil THEN pre.Brand ELSE Deref(input.Brand)
    /\ x.PurchasePrice = IF input.PurchasePrice = Nil THEN pre.PurchasePrice
                         ELSE Deref(input.PurchasePrice)

\* C3: a successful UpdateItem with a valid patch, not overlapped by another
\* call, changes exactly the fields present in the patch (and updatedAt):
\* the absent ones among name, brand and price, and id, category,
\* purchaseDate and createdAt, keep their values of before the call, in the
\* table and in the returned item.
C3_UpdateChangesOnlyPresentFields ==
    \A c \in Callers :
        Succeeded(c, "UpdateItem") /\ ValidPatch(call[c].uin)
        => /\ call[c].id \in DOMAIN items
           /\ call[c].result.item # Nil
           /\ FrameKept(Deref(call[c].found), items[call[c].id], call[c].uin)
           /\ FrameKept(Deref(call[c].found), Deref(call[c].result.item), call[c].uin)
           /\ items[call[c].id].UpdatedAt = call[c].at

C3_Witness ==
    \E c \in Callers :
        /\ Succeeded(c, "UpdateItem")
        /\ call[c].uin = Patch(Nil, Nil, Ptr(0))
        /\ Deref(call[c].found).PurchasePrice = 1
        /\ Deref(call[c].result.item).Name = "Daytona"
        /\ Deref(call[c].result.item).Brand = "ROLEX"
        /\ Deref(call[c].result.item).UpdatedAt > Deref(call[c].found).UpdatedAt

\* C4: UpdateItem of an existing item with price present and equal to 0, not
\* overlapped by another call and with the backend answering, succeeds and
\* leaves 0 as the stored and as the returned purchasePrice.
C4_ZeroPriceIsWritten ==
    \A c \in Callers :
        /\ Finished(c, "UpdateItem")
        /\ call[c].uin.PurchasePrice = Ptr(0)
        /\ call[c].found # Nil
        /\ ~call[c].failed
        => /\ call[c].result.err = NoError
           /\ "purchase_price" \in call[c].cols
           /\ Deref(call[c].result.item).PurchasePrice = 0
           /\ call[c].id \in DOMAIN items
           /\ items[call[c].id].PurchasePrice = 0

C4_Witness ==
    \E c \in Callers :
        /\ Succeeded(c, "UpdateItem")
        /\ call[c].uin.PurchasePrice = Ptr(0)
        /\ Deref(call[c].found).PurchasePrice = 1
        /\ items[call[c].id].PurchasePrice = 0
        /\ Deref(call[c].result.item).PurchasePrice = 0

\* C5: the columns the repository's Update writes are exactly the fields the
\* valid patch marks present: a field absent from the patch is not among
\* the columns of the SET clause.
C5_UpdateWritesPresentFieldsOnly ==
    \A c \in Callers :
        /\ call[c].op = "UpdateItem"
        /\ ValidPatch(call[c].uin)
        /\ call[c].pc \in {"Execute", "ReturnFindByID"}
        => call[c].cols = PresentColumns(call[c].uin)

\* C6: GetItemByID, DeleteItem and UpdateItem with id <= 0 return
\* InvalidInput at once, without any repository method invoked and without
\* any statement on the table.
C6_NonPositiveIdRejected ==
    \A c \in Callers :
        call[c].op \in {"GetItemByID", "DeleteItem", "UpdateItem"} /\ call[c].id <= 0
        => /\ call[c].pc = "done"
           /\ call[c].result.err = ErrInvalidInput
           /\ call[c].result.item = Nil
           /\ call[c].invoked = {}
           /\ call[c].rowsAffected = -1

C6_Witness ==
    /\ \E c \in Callers :
        /\ Finished(c, "UpdateItem")
        /\ call[c].id = 0
        /\ call[c].uin = Patch(Ptr("Submariner"), Nil, Nil)
        /\ call[c].result.err = ErrInvalidInput
    /\ 1 \in DOMAIN items

\* C7: for an id > 0 that has no row, GetItemByID, UpdateItem and DeleteItem
\* return NotFound when the backend answers, and after the failed FindByID
\* neither Update nor Delete is invoked and no statement touches the table.
C7_AbsentIdIsNotFound ==
    \A c \in Callers :
        /\ call[c].pc = "done"
        /\ call[c].op \in {"GetItemByID", "DeleteItem", "UpdateItem"}
        /\ call[c].id > 0
        /\ call[c].found = Nil
        /\ ~call[c].failed
        => /\ call[c].result.err = ErrItemNotFound
           /\ call[c].result.item = Nil
           /\ call[c].invoked = {"FindByID"}
           /\ call[c].rowsAffected = -1
           /\ call[c].id \notin DOMAIN items

C7_Witness ==
    \E c \in Callers :
        /\ Finished(c, "UpdateItem")
        /\ call[c].id = 2
        /\ 1 \in DOMAIN items
        /\ 2 \notin DOMAIN items
        /\ call[c].result.err = ErrItemNotFound

\* C8: a Delete or Update statement that affects zero rows (the row was
\* removed between the call's FindByID and its write) never ends in success:
\* the call returns NotFound when the backend answers; and UpdateItem
\* returns an item only for an id that has a row.
C8_ZeroRowsIsNotFound ==
    \A c \in Callers :
        call[c].pc = "done" /\ call[c].op \in {"DeleteItem", "UpdateItem"}
        => /\ call[c].rowsAffected = 0
              => /\ call[c].result.err # NoError
                 /\ ~call[c].failed => call[c].result.err = ErrItemNotFound
           /\ call[c].op = "UpdateItem" /\ call[c].result.err = NoError
              => call[c].id \in DOMAIN items /\ call[c].result.item # Nil

C8_Witness ==
    \E c \in Callers :
        /\ Finished(c, "DeleteItem")
        /\ call[c].found # Nil
        /\ call[c].rowsAffected = 0
        /\ call[c].result.err = ErrItemNotFound

\* C9: create and update are atomic for the caller: a CreateItem or
\* UpdateItem that returns an error has written no row, and one that
\* returns an item for a valid input has written its row.
C9_CreateUpdateAtomic ==
    \A c \in Callers :
        call[c].pc = "done" /\ call[c].op \in {"CreateItem", "UpdateItem"}
        => /\ call[c].result.err # NoError => call[c].rowsAffected # 1
           /\ call[c].result.err = NoError /\ ~InvalidField(call[c].uin)
              /\ ~(call[c].op = "UpdateItem" /\ AllAbsent(call[c].uin))
              => call[c].rowsAffected = 1

\* C10: for every mapping GetSummaryByCategory returns, the empty one
\* included, a successful GetCategorySummary returns Categories whose keys
\* are exactly the enumeration, each with its raw count, or 0 when the raw
\* mapping has no entry for it.
C10_SummaryZeroFilled ==
    \A c \in Callers :
        Succeeded(c, "GetCategorySummary")
        => /\ DOMAIN call[c].result.summary.Categories = CategorySet
           /\ \A cat \in CategorySet :
                call[c].result.summary.Categories[cat] =
                    IF cat \in DOMAIN call[c].raw THEN call[c].raw[cat] ELSE 0

C10_Witness ==
    \E c \in Callers :
        /\ Succeeded(c, "GetCategorySummary")
        /\ call[c].raw = [cat \in {"Watch", "Bag"} |-> IF cat = "Watch" THEN 2 ELSE 1]
        /\ call[c].result.summary.Categories["Watch"] = 2
        /\ call[c].result.summary.Categories["Bag"] = 1
        /\ call[c].result.summary.Categories["Other"] = 0

\* C11: the Total of a successful GetCategorySummary is the sum of the counts
\* GetSummaryByCategory returned, and these are the counts of the table: the
\* total is the number of rows the table holds at the query (0 when empty).
C11_TotalIsSumOfCounts ==
    \A c \in Callers :
        Succeeded(c, "GetCategorySummary")
        => /\ call[c].raw = GetSummaryByCategory
           /\ call[c].result.summary.Total = SumCounts(call[c].raw)
           /\ call[c].result.summary.Total = Cardinality(DOMAIN items)

C11_Witness ==
    \E c \in Callers :
        /\ Succeeded(c, "GetCategorySummary")
        /\ Cardinality(DOMAIN items) = 2
        /\ DOMAIN call[c].raw = {"Watch"}
        /\ call[c].raw["Watch"] = 2
        /\ call[c].result.summary.Total = 2

\* The invariants of an Item: name and brand non-empty, category in the
\* enumeration, price >= 0, purchaseDate a calendar date.
ItemInvariant(x) ==
    /\ x.Name # ""
    /\ x.Brand # ""
    /\ x.Category \in CategorySet
    /\ x.PurchasePrice >= 0
    /\ x.PurchaseDate = "2023-01-15"

\* C12: CreateItem accepts exactly the valid inputs. With name and brand
\* non-empty, the category in the enumeration, price >= 0 and a date that
\* parses, it invokes the repository's Create, and the item it returns
\* satisfies the invariants of an Item; with any one of these violated it
\* returns InvalidInput at once, Create is not invoked and no row is written.
C12_CreateAcceptsExactlyValid ==
    \A c \in Callers :
        call[c].op = "CreateItem"
        => IF ItemInvariant(call[c].cin)
           THEN /\ "Create" \in call[c].invoked
                /\ call[c].pc = "done" /\ call[c].result.err = NoError
                   => /\ call[c].result.item # Nil
                      /\ ItemInvariant(Deref(call[c].result.item))
                      /\ call[c].rowsAffected = 1
           ELSE /\ call[c].pc = "done"
                /\ call[c].result.err = ErrInvalidInput
                /\ call[c].result.item = Nil
                /\ call[c].invoked = {}
                /\ call[c].rowsAffected = -1

C12_Witness ==
    \E c \in Callers :
        /\ Finished(c, "CreateItem")
        /\ call[c].cin = [Daytona EXCEPT !.Category = "Car"]
        /\ call[c].result.err = ErrInvalidInput
        /\ DOMAIN items = {1}
        /\ items[1].Name = "Birkin"

\* Equality on the fields the client supplies.
SameClientFields(x, in) ==
    /\ x.Name = in.Name
    /\ x.Category = in.Category
    /\ x.Brand = in.Brand
    /\ x.PurchasePrice = in.PurchasePrice
    /\ x.PurchaseDate = in.PurchaseDate

\* C13: round trip. A successful create of a valid item returns an item
\* whose id the table assigned, and a FindByID of that id that follows with
\* no update or delete of it in between returns an item equal to the input
\* on name, category, brand, purchasePrice and purchaseDate.
C13_CreateFindRoundTrip ==
    \A c \in Callers :
        Succeeded(c, "CreateItem")
        => /\ call[c].result.item # Nil
           /\ Deref(call[c].result.item).ID = call[c].id
           /\ call[c].id \in 1..MaxId
           /\ call[c].id = nextId - 1
           /\ SameClientFields(Deref(call[c].result.item), call[c].cin)
           /\ LET got == FindByID(call[c].id, FALSE)
              IN /\ got.err = NoError
                 /\ Deref(got.item).ID = call[c].id
                 /\ SameClientFields(Deref(got.item), call[c].cin)

C13_Witness ==
    \E c \in Callers :
        /\ Succeeded(c, "CreateItem")
        /\ call[c].cin = Birkin
        /\ Deref(call[c].result.item).ID = 2
        /\ Deref(FindByID(2, FALSE).item).PurchasePrice = 0
        /\ Deref(FindByID(2, FALSE).item).PurchaseDate = "2023-01-15"

\* The three kinds of error of the core.
ErrorKinds == {ErrInvalidInput, ErrItemNotFound, ErrDatabaseError}

\* C14: the classification of an error survives the layers. Every error a
\* public operation of the usecase returns is of exactly one of the kinds
\* NotFound, InvalidInput and DatabaseError, and of the kind of its cause:
\* DatabaseError when the backend failed in the call, InvalidInput when the
\* usecase rejected the arguments before any repository method, NotFound
\* when the repository found no row, wrapped with a message or not.
C14_ErrorKindPreserved ==
    \A c \in Callers :
        /\ call[c].pc = "done"
        /\ call[c].op \in {"GetAllItems", "GetItemByID", "CreateItem",
                            "UpdateItem", "DeleteItem", "GetCategorySummary"}
        => /\ call[c].result.err \in ErrorKinds \cup {NoError}
           /\ call[c].failed <=> call[c].result.err = ErrDatabaseError
           /\ call[c].result.err = ErrInvalidInput => call[c].invoked = {}
           /\ call[c].result.err = ErrItemNotFound
              => /\ call[c].invoked # {}
                 /\ call[c].id \notin DOMAIN items
           /\ call[c].invoked = {} => call[c].result.err = ErrInvalidInput

C14_Witness ==
    \E c \in Callers :
        /\ Finished(c, "UpdateItem")
        /\ call[c].found # Nil
        /\ call[c].failed
        /\ call[c].rowsAffected = 1
        /\ call[c].result.msg = "failed to update item"
        /\ call[c].result.err = ErrDatabaseError

\* C15: UpdateItem is a read-modify-write without locking. The UPDATE of a
\* call with a valid patch sets name, brand and price of the row to what the
\* call read at its FindByID, overlaid with its patch, whatever another call
\* wrote to the row in between; so of two overlapping successful updates of
\* one id the earlier write is lost, also when the patches name different
\* fields.
C15_UpdateOverwritesFromOwnRead ==
    [][\A c \in Callers :
          /\ call[c].pc = "Execute"
          /\ call'[c].pc = "ReturnFindByID"
          /\ ValidPatch(call[c].uin)
          => /\ call[c].id \in DOMAIN items'
             /\ FrameKept(Deref(call[c].found), items'[call[c].id], call[c].uin)]_vars

\* Three calls without any failure: CreateItem(Daytona), an UpdateItem of
\* the name, which has returned, and the overlapping UpdateItem of the brand,
\* which returns success with the brand as created: its write is lost.
C15_Witness ==
    \E c \in Callers :
        /\ Succeeded(c, "UpdateItem")
        /\ call[c].uin = Patch(Nil, Ptr("OMEGA"), Nil)
        /\ call[c].rowsAffected = 1
        /\ \A d \in Callers \ {c} : call[d].pc = "idle"
        /\ faults = 0
        /\ calls = 3
        /\ items[call[c].id].Name = "Submariner"
        /\ items[call[c].id].Brand = "ROLEX"
        /\ Deref(call[c].result.item).Brand = "ROLEX"

\* C16: after a successful UpdateItem (here: with a valid patch) the stored
\* updatedAt of the item is a clock value read during that call, the stamp
\* of the usecase or the updated_at of the repository's statement, and is
\* not earlier than the updatedAt stored before the call, in every
\* interleaving of updates of the same id; createdAt is as it was.
C16_UpdatedAtRefreshed ==
    \A c \in Callers :
        Succeeded(c, "UpdateItem") /\ ValidPatch(call[c].uin)
        => /\ call[c].id \in DOMAIN items
           /\ items[call[c].id].UpdatedAt
                 \in {call[c].at, Deref(call[c].item).UpdatedAt}
           /\ items[call[c].id].UpdatedAt >= Deref(call[c].found).UpdatedAt
           /\ items[call[c].id].CreatedAt = Deref(call[c].found).CreatedAt

\* C17: store invariant. Whatever CreateItem, UpdateItem and DeleteItem
\* calls were made on the usecase over the SQL-backed repository, patches
\* with an empty name or brand or a negative price included, every row of
\* the table has a non-empty name and brand, a category of the enumeration
\* and a price >= 0.
C17_StoreInvariant ==
    \A i \in DOMAIN items :
        /\ items[i].ID = i
        /\ items[i].Name # ""
        /\ items[i].Brand # ""
        /\ items[i].Category \in CategorySet
        /\ items[i].PurchasePrice >= 0

C17_Witness ==
    \E c \in Callers :
        /\ Succeeded(c, "UpdateItem")
        /\ call[c].uin = Patch(Nil, Ptr(""), Nil)
        /\ call[c].rowsAffected = 1
        /\ "brand" \notin call[c].cols
        /\ items[call[c].id].Brand = "ROLEX"

\* C18: in every successful GetCategorySummary over the table, after any
\* sequence of public operations, Total is the sum of the values of
\* Categories: no row is counted in Total without being counted under a
\* category of the mapping.
C18_TotalIsSumOfCategories ==
    \A c \in Callers :
        Succeeded(c, "GetCategorySummary")
        => /\ DOMAIN call[c].raw \subseteq DOMAIN call[c].result.summary.Categories
           /\ call[c].result.summary.Total =
                 SumCounts(call[c].result.summary.Categories)

C18_Witness ==
    \E c \in Callers :
        /\ Succeeded(c, "GetCategorySummary")
        /\ call[c].result.summary.Total = 2
        /\ call[c].result.summary.Categories["Watch"] = 1
        /\ call[c].result.summary.Categories["Bag"] = 1
====
